---- MODULE Spec2Model ----
(***************************************************************************)
(* Three menu-driven command-line programs:                                *)
(*   - the airline system (Hash Hackers.py): flights and bookings kept in  *)
(*     two in-memory dictionaries;                                         *)
(*   - the bank loan tracker (Bank_Loan.py): customers and loans kept in   *)
(*     two SQLite tables;                                                  *)
(*   - the health log (Health_checkup.py): rows appended to a CSV file.    *)
(* Each program is one process reading a menu choice and its inputs, and   *)
(* each menu choice is one action.  The programs do not interact, so each  *)
(* has a specification of its own (SpecAir, SpecLoan, SpecHealth) over the *)
(* shared variable list; the other programs' variables stay as they are.   *)
(*                                                                         *)
(* Text typed at a prompt that is then converted with int() or float() is  *)
(* modelled by the conversion's result: Num(n) when the text denotes the   *)
(* number n, BadNum when the conversion raises ValueError.  Amounts that   *)
(* the programs hold as floats are modelled by integers.                   *)
(***************************************************************************)
EXTENDS Integers, Sequences, FiniteSets, TLC

VARIABLES
    flights,    \* airline: flight number -> flight record        (self.flights)
    bookings,   \* airline: ticket id -> booking record           (self.bookings)
    apc,        \* airline: position of the process: "menu", "exited", "crashed"
    last,       \* airline: the menu choice just handled, its inputs and the message printed
    roundtrip,  \* airline: history of a booking immediately followed by its cancellation
    customers,  \* loan: rows of table customers, row i has id i
    loans,      \* loan: rows of table loans, row i has id i
    lpc,        \* loan: position of the process
    llast,      \* loan: the menu choice just handled, its inputs and the message printed
    rows,       \* health: data rows of health_log.csv, in file order
    hpc,        \* health: position of the process
    hlast       \* health: the menu choice just handled and the message printed

vars == <<flights, bookings, apc, last, roundtrip,
          customers, loans, lpc, llast, rows, hpc, hlast>>

airVars == <<flights, bookings, apc, last, roundtrip>>
loanVars == <<customers, loans, lpc, llast>>
healthVars == <<rows, hpc, hlast>>

(***************************************************************************)
(* Bounds of the model.                                                    *)
(***************************************************************************)
MaxSeats == 1       \* largest seat count typed at "Enter number of seats"
MaxLoans == 1       \* number of loan rows after which apply_loan is no longer explored
MaxBalance == 1     \* largest balance (in units of money) a repayment is explored up to
MaxRows == 3        \* number of CSV rows after which add_entry is no longer explored

(***************************************************************************)
(* Converted input.                                                        *)
(***************************************************************************)
Num(n) == [ok |-> TRUE, v |-> n]
BadNum == [ok |-> FALSE, v |-> 0]

NoMsg == ""

(***************************************************************************)
(*                          AIRLINE SYSTEM                                 *)
(***************************************************************************)
FlightNos == {"AI101", "AI102"}
Destinations == {"Delhi"}
Passengers == {"Alice", "Bob"}
Prices == {50, 75}
SeatInputs == {Num(n) : n \in -1..MaxSeats} \cup {BadNum}
PriceInputs == {Num(p) : p \in Prices} \cup {BadNum}
TicketInputs == {Num(n) : n \in 0..(2 * MaxSeats + 1)} \cup {BadNum}

EmptyMap == [x \in {} |-> 0]

MsgFlightExists == "Error: Flight already exists!"
MsgFlightAdded == "Flight added successfully"
MsgFlightNotFound == "Error: Flight not found!"
MsgPriceUpdated == "Flight price updated successfully!"
MsgInvalidFlight == "Error: Invalid flight number!"
MsgNoSeats == "Error: No seats available on this flight!"
MsgBooked == "Ticket booked successfully!"
MsgInvalidTicket == "Error: Invalid ticket ID!"
MsgCanceled == "Booking canceled successfully!"
MsgInvalidInput == "Error: Invalid input. Please enter the correct type of data."
MsgInvalidChoice == "Error: Invalid choice! Please try again."
MsgExit == "Exiting the system. Thank you!"
MsgShown == "shown"

Idle == [phase |-> "idle", flight_no |-> "", ticket_id |-> 0, before |-> 0]

Call(op, flight_no, ticket_id, msg) ==
    [op |-> op, flight_no |-> flight_no, ticket_id |-> ticket_id, msg |-> msg]

\* `flight_no in self.flights`
FlightExists(fl, flight_no) == flight_no \in DOMAIN fl

\* The record add_flight stores: seats and available_seats are both int(seats).
NewFlight(destination, seats, price) ==
    [destination |-> destination, seats |-> seats,
     available_seats |-> seats, price |-> price]

\* add_flight without its duplicate test: the record is overwritten.
add_flight_Overwrite(fl, flight_no, destination, seats, price) ==
    [f \in DOMAIN fl \cup {flight_no} |->
        IF f = flight_no THEN NewFlight(destination, seats, price) ELSE fl[f]]

\* FlightManagement.add_flight: the flights mapping after the call.
add_flight(fl, flight_no, destination, seats, price) ==
    IF FlightExists(fl, flight_no)
    THEN fl
    ELSE [f \in DOMAIN fl \cup {flight_no} |->
            IF f = flight_no THEN NewFlight(destination, seats, price) ELSE fl[f]]

\* FlightManagement.update_price: the flights mapping after the call.
update_price(fl, flight_no, price) ==
    IF ~FlightExists(fl, flight_no)
    THEN fl
    ELSE [fl EXCEPT ![flight_no].price = price]

\* The seat test written `< 0`: a flight with no seat left is still booked.
HasSeat_OffByOne(flight) == ~(flight.available_seats < 0)

\* book_ticket's test `flight['available_seats'] <= 0`, negated.
HasSeat(flight) == ~(flight.available_seats <= 0)

\* A ticket id one above the largest stored id.
NextTicketId_MaxKey(bk) ==
    IF DOMAIN bk = {} THEN 1
    ELSE (CHOOSE m \in DOMAIN bk : \A t \in DOMAIN bk : t <= m) + 1

\* `ticket_id = len(self.bookings) + 1`
NextTicketId(bk) == Cardinality(DOMAIN bk) + 1

\* `self.bookings[ticket_id] = {...}`: inserts, or overwrites the entry of that key.
StoreBooking(bk, ticket_id, passenger_name, flight_no) ==
    [t \in DOMAIN bk \cup {ticket_id} |->
        IF t = ticket_id
        THEN [passenger_name |-> passenger_name, flight_no |-> flight_no]
        ELSE bk[t]]

\* `flight['available_seats'] -= 1`
SeatsAfterBooking(a) == a - 1

\* A cancellation that does not give the seat back.
SeatsAfterCancel_NoRestore(a) == a

\* `flights[flight_no]['available_seats'] += 1`
SeatsAfterCancel(a) == a + 1

\* `del self.bookings[ticket_id]`
RemoveBooking(bk, ticket_id) == [t \in DOMAIN bk \ {ticket_id} |-> bk[t]]

\* menu choice '1': add a flight
MenuAddFlight(flight_no, destination, seats, price) ==
    /\ apc = "menu"
    /\ IF ~seats.ok \/ ~price.ok
       THEN /\ flights' = flights
            /\ last' = Call("add_flight", flight_no, 0, MsgInvalidInput)
       ELSE /\ flights' = add_flight(flights, flight_no, destination, seats.v, price.v)
            /\ last' = Call("add_flight", flight_no, 0,
                            IF FlightExists(flights, flight_no)
                            THEN MsgFlightExists ELSE MsgFlightAdded)
    /\ roundtrip' = Idle
    /\ UNCHANGED <<bookings, apc, loanVars, healthVars>>

\* menu choice '2': update a flight's price
MenuUpdatePrice(flight_no, price) ==
    /\ apc = "menu"
    /\ IF ~price.ok
       THEN /\ flights' = flights
            /\ last' = Call("update_price", flight_no, 0, MsgInvalidInput)
       ELSE /\ flights' = update_price(flights, flight_no, price.v)
            /\ last' = Call("update_price", flight_no, 0,
                            IF FlightExists(flights, flight_no)
                            THEN MsgPriceUpdated ELSE MsgFlightNotFound)
    /\ roundtrip' = Idle
    /\ UNCHANGED <<bookings, apc, loanVars, healthVars>>

\* menu choices '3', '4' and '8': view_flights, search_flights, generate_report
MenuShow(op) ==
    /\ apc = "menu"
    /\ last' = Call(op, "", 0, MsgShown)
    /\ roundtrip' = Idle
    /\ UNCHANGED <<flights, bookings, apc, loanVars, healthVars>>

\* menu choice '5': book a ticket
MenuBookTicket(passenger_name, flight_no) ==
    /\ apc = "menu"
    /\ IF ~FlightExists(flights, flight_no)
       THEN /\ last' = Call("book_ticket", flight_no, 0, MsgInvalidFlight)
            /\ roundtrip' = Idle
            /\ UNCHANGED <<flights, bookings>>
       ELSE IF ~HasSeat(flights[flight_no])
       THEN /\ last' = Call("book_ticket", flight_no, 0, MsgNoSeats)
            /\ roundtrip' = Idle
            /\ UNCHANGED <<flights, bookings>>
       ELSE LET ticket_id == NextTicketId(bookings) IN
            /\ bookings' = StoreBooking(bookings, ticket_id, passenger_name, flight_no)
            /\ flights' = [flights EXCEPT ![flight_no].available_seats =
                                SeatsAfterBooking(@)]
            /\ last' = Call("book_ticket", flight_no, ticket_id, MsgBooked)
            /\ roundtrip' = [phase |-> "booked", flight_no |-> flight_no,
                             ticket_id |-> ticket_id,
                             before |-> flights[flight_no].available_seats]
    /\ UNCHANGED <<apc, loanVars, healthVars>>

\* menu choice '6': cancel a booking
MenuCancelBooking(ticket) ==
    /\ apc = "menu"
    /\ IF ~ticket.ok
       THEN /\ last' = Call("cancel_booking", "", 0, MsgInvalidInput)
            /\ roundtrip' = Idle
            /\ UNCHANGED <<flights, bookings>>
       ELSE IF ticket.v \notin DOMAIN bookings
       THEN /\ last' = Call("cancel_booking", "", ticket.v, MsgInvalidTicket)
            /\ roundtrip' = Idle
            /\ UNCHANGED <<flights, bookings>>
       ELSE LET flight_no == bookings[ticket.v].flight_no IN
            /\ flights' = [flights EXCEPT ![flight_no].available_seats =
                                SeatsAfterCancel(@)]
            /\ bookings' = RemoveBooking(bookings, ticket.v)
            /\ last' = Call("cancel_booking", flight_no, ticket.v, MsgCanceled)
            /\ roundtrip' = IF roundtrip.phase = "booked" /\ roundtrip.ticket_id = ticket.v
                            THEN [roundtrip EXCEPT !.phase = "cancelled"]
                            ELSE Idle
    /\ UNCHANGED <<apc, loanVars, healthVars>>

\* menu choice '7': view a booking
MenuViewBooking(ticket) ==
    /\ apc = "menu"
    /\ last' = IF ~ticket.ok
               THEN Call("view_booking", "", 0, MsgInvalidInput)
               ELSE IF ticket.v \notin DOMAIN bookings
               THEN Call("view_booking", "", ticket.v, MsgInvalidTicket)
               ELSE Call("view_booking", bookings[ticket.v].flight_no, ticket.v, MsgShown)
    /\ roundtrip' = Idle
    /\ UNCHANGED <<flights, bookings, apc, loanVars, healthVars>>

\* menu choice '9': leave the loop
MenuExit ==
    /\ apc = "menu"
    /\ apc' = "exited"
    /\ last' = Call("exit", "", 0, MsgExit)
    /\ roundtrip' = Idle
    /\ UNCHANGED <<flights, bookings, loanVars, healthVars>>

\* any other menu choice
MenuInvalidChoice ==
    /\ apc = "menu"
    /\ last' = Call("invalid", "", 0, MsgInvalidChoice)
    /\ roundtrip' = Idle
    /\ UNCHANGED <<flights, bookings, apc, loanVars, healthVars>>

NextAir ==
    \/ \E f \in FlightNos, d \in Destinations, s \in SeatInputs, p \in PriceInputs :
         MenuAddFlight(f, d, s, p)
    \/ \E f \in FlightNos, p \in PriceInputs : MenuUpdatePrice(f, p)
    \/ \E op \in {"view_flights", "search_flights", "generate_report"} : MenuShow(op)
    \/ \E n \in Passengers, f \in FlightNos : MenuBookTicket(n, f)
    \/ \E t \in TicketInputs : MenuCancelBooking(t)
    \/ \E t \in TicketInputs : MenuViewBooking(t)
    \/ MenuExit
    \/ MenuInvalidChoice


(***************************************************************************)
(*                          BANK LOAN TRACKER                              *)
(* Table rows are never deleted and both tables use AUTOINCREMENT ids, so  *)
(* the row with id i is the i-th element of the sequence.  The database    *)
(* file outlives the process: after the process ends, normally or by an    *)
(* uncaught exception, the script can be run again on the same tables.     *)
(* Every statement is committed on its own, so an exception loses no row.  *)
(***************************************************************************)
Names == {"Ann"}
Emails == {"ann@x.org", "bob@x.org"}
Phones == {"555"}
Amounts == {-1, 1}
Rates == {5}
Terms == {12}
Payments == {-1, 1, MaxBalance + 1}
AmountInputs == {Num(a) : a \in Amounts} \cup {BadNum}
RateInputs == {Num(r) : r \in Rates} \cup {BadNum}
TermInputs == {Num(t) : t \in Terms} \cup {BadNum}
PaymentInputs == {Num(p) : p \in Payments} \cup {BadNum}
\* The loan id is typed as text and compared with the INTEGER column id: the
\* text either denotes the id of a stored row or matches no row (a number
\* never assigned, or text such as "abc").  0 stands for text matching no row.
LoanIdInputs == 0..MaxLoans

Statuses == {"Pending", "Approved", "Rejected"}

MsgCustomerAdded == "Customer added successfully!"
MsgCustomerNotFound == "Customer not found. Please register first."
MsgLoanSubmitted == "Loan application submitted!"
MsgLoanApproved == "Loan Approved!"
MsgLoanRejected == "Loan Rejected!"
MsgPaymentOk == "Payment successful!"
MsgLoanNotFound == "Loan not found."
MsgLoanExit == "Exiting system. Goodbye!"
MsgLoanInvalidChoice == "Invalid choice, please try again."
MsgIntegrityError == "sqlite3.IntegrityError: UNIQUE constraint failed: customers.email"
MsgValueError == "ValueError"

LoanCall(op, loan_id, email, payment, was, msg) ==
    [op |-> op, loan_id |-> loan_id, email |-> email, payment |-> payment,
     was |-> was, msg |-> msg]

LoanStarted == LoanCall("start", 0, "", BadNum, "", NoMsg)

\* `email TEXT UNIQUE`: the INSERT of add_customer fails when a row has the email.
EmailTaken(cs, email) == \E i \in 1..Len(cs) : cs[i].email = email

\* `SELECT id FROM customers WHERE email=?` and fetchone(): the id, or 0 for None.
CustomerIdByEmail(cs, email) ==
    IF EmailTaken(cs, email)
    THEN CHOOSE i \in 1..Len(cs) : cs[i].email = email
    ELSE 0

\* A loan created with nothing owed.
NewLoan_ZeroBalance(customer_id, amount, rate, term) ==
    [customer_id |-> customer_id, amount |-> amount, interest_rate |-> rate,
     term |-> term, status |-> "Pending", balance |-> 0]

\* The row apply_loan inserts: `balance = amount`, status "Pending".
NewLoan(customer_id, amount, rate, term) ==
    [customer_id |-> customer_id, amount |-> amount, interest_rate |-> rate,
     term |-> term, status |-> "Pending", balance |-> amount]

\* `WHERE id=?`: whether a row of loans has the id.
LoanFound(ls, loan_id) == loan_id \in 1..Len(ls)

\* `UPDATE loans SET status=... WHERE id=?`: no row changes when none matches.
SetStatus(ls, loan_id, status) ==
    IF LoanFound(ls, loan_id) THEN [ls EXCEPT ![loan_id].status = status] ELSE ls

\* A repayment whose result is not floored at zero.
NewBalance_NoFloor(balance, payment) == balance - payment

\* `new_balance = loan[0] - payment; if new_balance < 0: new_balance = 0`
NewBalance(balance, payment) ==
    IF balance - payment < 0 THEN 0 ELSE balance - payment

\* A repayment that also closes the loan once nothing is owed.
SetBalance_MarksPaid(ls, loan_id, new_balance) ==
    [ls EXCEPT ![loan_id].balance = new_balance,
               ![loan_id].status = IF new_balance = 0 THEN "Paid" ELSE @]

\* `UPDATE loans SET balance=? WHERE id=?`
SetBalance(ls, loan_id, new_balance) ==
    [ls EXCEPT ![loan_id].balance = new_balance]

StatusOf(ls, loan_id) == IF LoanFound(ls, loan_id) THEN ls[loan_id].status ELSE ""

\* menu choice '1'
AddCustomer(name, email, phone) ==
    /\ lpc = "menu"
    /\ IF EmailTaken(customers, email)
       THEN /\ lpc' = "crashed"
            /\ llast' = LoanCall("add_customer", 0, email, BadNum, "", MsgIntegrityError)
            /\ UNCHANGED customers
       ELSE /\ customers' = Append(customers,
                                   [name |-> name, email |-> email, phone |-> phone])
            /\ llast' = LoanCall("add_customer", 0, email, BadNum, "", MsgCustomerAdded)
            /\ UNCHANGED lpc
    /\ UNCHANGED <<loans, airVars, healthVars>>

\* menu choice '2'
ApplyLoan(email, amount, rate, term) ==
    /\ lpc = "menu"
    /\ LET customer == CustomerIdByEmail(customers, email) IN
       IF customer = 0
       THEN /\ llast' = LoanCall("apply_loan", 0, email, BadNum, "", MsgCustomerNotFound)
            /\ UNCHANGED <<loans, lpc>>
       ELSE IF ~amount.ok \/ ~rate.ok \/ ~term.ok
       THEN /\ lpc' = "crashed"
            /\ llast' = LoanCall("apply_loan", 0, email, BadNum, "", MsgValueError)
            /\ UNCHANGED loans
       ELSE /\ Len(loans) < MaxLoans
            /\ loans' = Append(loans, NewLoan(customer, amount.v, rate.v, term.v))
            /\ llast' = LoanCall("apply_loan", Len(loans) + 1, email, BadNum, "",
                                 MsgLoanSubmitted)
            /\ UNCHANGED lpc
    /\ UNCHANGED <<customers, airVars, healthVars>>

\* menu choice '3'
ApproveLoan(loan_id) ==
    /\ lpc = "menu"
    /\ loans' = SetStatus(loans, loan_id, "Approved")
    /\ llast' = LoanCall("approve_loan", loan_id, "", BadNum, StatusOf(loans, loan_id),
                         MsgLoanApproved)
    /\ UNCHANGED <<customers, lpc, airVars, healthVars>>

\* menu choice '4'
RejectLoan(loan_id) ==
    /\ lpc = "menu"
    /\ loans' = SetStatus(loans, loan_id, "Rejected")
    /\ llast' = LoanCall("reject_loan", loan_id, "", BadNum, StatusOf(loans, loan_id),
                         MsgLoanRejected)
    /\ UNCHANGED <<customers, lpc, airVars, healthVars>>

\* menu choice '5'
ViewLoans ==
    /\ lpc = "menu"
    /\ llast' = LoanCall("view_loans", 0, "", BadNum, "", MsgShown)
    /\ UNCHANGED <<customers, loans, lpc, airVars, healthVars>>

\* menu choice '6'
RepayLoan(loan_id, payment) ==
    /\ lpc = "menu"
    /\ IF ~payment.ok
       THEN /\ lpc' = "crashed"
            /\ llast' = LoanCall("repay_loan", loan_id, "", payment, "", MsgValueError)
            /\ UNCHANGED loans
       ELSE IF LoanFound(loans, loan_id)
       THEN LET new_balance == NewBalance(loans[loan_id].balance, payment.v) IN
            /\ new_balance <= MaxBalance
            /\ loans' = SetBalance(loans, loan_id, new_balance)
            /\ llast' = LoanCall("repay_loan", loan_id, "", payment,
                                 StatusOf(loans, loan_id), MsgPaymentOk)
            /\ UNCHANGED lpc
       ELSE /\ llast' = LoanCall("repay_loan", loan_id, "", payment, "", MsgLoanNotFound)
            /\ UNCHANGED <<loans, lpc>>
    /\ UNCHANGED <<customers, airVars, healthVars>>

\* menu choice '7'
LoanExit ==
    /\ lpc = "menu"
    /\ lpc' = "exited"
    /\ llast' = LoanCall("exit", 0, "", BadNum, "", MsgLoanExit)
    /\ UNCHANGED <<customers, loans, airVars, healthVars>>

\* any other menu choice
LoanInvalidChoice ==
    /\ lpc = "menu"
    /\ llast' = LoanCall("invalid", 0, "", BadNum, "", MsgLoanInvalidChoice)
    /\ UNCHANGED <<customers, loans, lpc, airVars, healthVars>>

\* The script is run again: it connects to the same file, whose tables exist.
LoanRunAgain ==
    /\ lpc \in {"exited", "crashed"}
    /\ lpc' = "menu"
    /\ llast' = LoanStarted
    /\ UNCHANGED <<customers, loans, airVars, healthVars>>

NextLoan ==
    \/ \E n \in Names, e \in Emails, p \in Phones : AddCustomer(n, e, p)
    \/ \E e \in Emails, a \in AmountInputs, r \in RateInputs, t \in TermInputs :
         ApplyLoan(e, a, r, t)
    \/ \E id \in LoanIdInputs : ApproveLoan(id)
    \/ \E id \in LoanIdInputs : RejectLoan(id)
    \/ ViewLoans
    \/ \E id \in LoanIdInputs, p \in PaymentInputs : RepayLoan(id, p)
    \/ LoanExit
    \/ LoanInvalidChoice
    \/ LoanRunAgain


(***************************************************************************)
(*                             HEALTH LOG                                  *)
(* rows is the sequence of data rows of health_log.csv below its header.   *)
(* A row is modelled by the date and by the fields its derived values are  *)
(* computed from; the other typed fields are stored as typed and are left  *)
(* out.  bmi is held in hundredths (2286 is 22.86).  NoValue is a field    *)
(* written to the file as the empty string (Python's None, or the "" that  *)
(* stands for a BMI that was not computed).  The file outlives the         *)
(* process, which can be run again on it.                                  *)
(***************************************************************************)
NoValue == BadNum
Today == "2026-11-01"
\* Text typed at the date prompt: nothing, two dates, and text that is no date.
DateInputs == {"", "2024-01-05", "someday"}
ValidDates == {"2024-01-05", Today}
\* to_float_or_none of the text typed at the weight and height prompts.
WeightInputs == {NoValue, Num(70)}
HeightInputs == {NoValue, Num(0), Num(175)}
PlotChoices == {"1", "2", "3", "4", "x"}

MsgSaved == "Saved entry:"
MsgNoEntriesYet == "No entries yet. Add one first."
MsgNoEntries == "No entries."
MsgNoPlotData == "No data to plot."
MsgNoExportData == "No data to export."
MsgExported == "Exported to health_log.xlsx"
MsgUnknownChoice == "Unknown choice."
MsgUnknownOption == "Unknown option. Try again."
MsgBye == "Bye!"
MsgDateParseError == "ValueError: pandas.to_datetime: unknown datetime string format"
MsgNoExcelWriter == "ModuleNotFoundError: No module named 'openpyxl'"

HealthCall(op, msg) == [op |-> op, msg |-> msg]

\* n / d rounded to the nearest integer, a tie going to the even one, as
\* Python's round does (n >= 0, d > 0).
RoundHalfEven(n, d) ==
    LET q == n \div d
        r == n % d
    IN  IF 2 * r < d THEN q
        ELSE IF 2 * r > d THEN q + 1
        ELSE IF q % 2 = 0 THEN q ELSE q + 1

\* calc_bmi, in hundredths: round(weight_kg / (height_cm / 100) ** 2, 2)
calc_bmi(weight_kg, height_cm) ==
    IF height_cm <= 0 THEN 0
    ELSE RoundHalfEven(weight_kg * 10000 * 100, height_cm * height_cm)

\* bmi_category, on hundredths
bmi_category(bmi) ==
    IF bmi = 0 THEN "unknown"
    ELSE IF bmi < 1850 THEN "Underweight"
    ELSE IF bmi < 2500 THEN "Normal"
    ELSE IF bmi < 3000 THEN "Overweight"
    ELSE "Obese"

\* The row add_entry_interactive builds from the typed values.
Entry(date, weight_kg, height_cm) ==
    LET known == weight_kg.ok /\ height_cm.ok
        bmi == IF known THEN calc_bmi(weight_kg.v, height_cm.v) ELSE 0
    IN  [date |-> IF date = "" THEN Today ELSE date,
         weight_kg |-> weight_kg,
         height_cm |-> height_cm,
         bmi |-> IF known THEN Num(bmi) ELSE NoValue,
         bmi_category |-> IF known THEN bmi_category(bmi) ELSE ""]

\* The file opened for writing instead of appending: earlier rows are lost.
AppendRow_Truncate(rs, row) == <<row>>

\* `open(CSV_FILE, "a")` and writer.writerow(save_row)
AppendRow(rs, row) == Append(rs, row)

\* pd.to_datetime(df["date"]) raises when a stored date is not a date.
DatesParse(rs) == \A i \in 1..Len(rs) : rs[i].date \in ValidDates

\* menu option 1
AddEntry(date, weight, height) ==
    /\ hpc = "menu"
    /\ Len(rows) < MaxRows
    /\ rows' = AppendRow(rows, Entry(date, weight, height))
    /\ hlast' = HealthCall("add_entry", MsgSaved)
    /\ UNCHANGED <<hpc, airVars, loanVars>>

\* menu option 2
ShowSummary ==
    /\ hpc = "menu"
    /\ hlast' = HealthCall("show_summary",
                           IF rows = <<>> THEN MsgNoEntriesYet ELSE MsgShown)
    /\ UNCHANGED <<rows, hpc, airVars, loanVars>>

\* menu option 3
ShowAllEntries ==
    /\ hpc = "menu"
    /\ hlast' = HealthCall("show_all_entries",
                           IF rows = <<>> THEN MsgNoEntries ELSE MsgShown)
    /\ UNCHANGED <<rows, hpc, airVars, loanVars>>

\* menu option 4; choice is the text typed at "Enter number"
PlotTrends(choice) ==
    /\ hpc = "menu"
    /\ IF rows = <<>>
       THEN /\ hlast' = HealthCall("plot_trends", MsgNoPlotData)
            /\ UNCHANGED hpc
       ELSE IF ~DatesParse(rows)
       THEN /\ hlast' = HealthCall("plot_trends", MsgDateParseError)
            /\ hpc' = "crashed"
       ELSE /\ hlast' = HealthCall("plot_trends",
                                   IF choice \in {"1", "2", "3", "4"}
                                   THEN MsgShown ELSE MsgUnknownChoice)
            /\ UNCHANGED hpc
    /\ UNCHANGED <<rows, airVars, loanVars>>

\* menu option 5; openpyxl tells whether the spreadsheet writer pandas needs
\* is installed (the script's stated requirements are pandas and matplotlib)
ExportToExcel(openpyxl) ==
    /\ hpc = "menu"
    /\ IF rows = <<>>
       THEN /\ hlast' = HealthCall("export_to_excel", MsgNoExportData)
            /\ UNCHANGED hpc
       ELSE IF ~openpyxl
       THEN /\ hlast' = HealthCall("export_to_excel", MsgNoExcelWriter)
            /\ hpc' = "crashed"
       ELSE /\ hlast' = HealthCall("export_to_excel", MsgExported)
            /\ UNCHANGED hpc
    /\ UNCHANGED <<rows, airVars, loanVars>>

\* menu option 0
HealthExit ==
    /\ hpc = "menu"
    /\ hpc' = "exited"
    /\ hlast' = HealthCall("exit", MsgBye)
    /\ UNCHANGED <<rows, airVars, loanVars>>

\* any other menu option
HealthInvalidChoice ==
    /\ hpc = "menu"
    /\ hlast' = HealthCall("invalid", MsgUnknownOption)
    /\ UNCHANGED <<rows, hpc, airVars, loanVars>>

\* The script is run again: ensure_csv_exists finds the file and leaves it.
HealthRunAgain ==
    /\ hpc \in {"exited", "crashed"}
    /\ hpc' = "menu"
    /\ hlast' = HealthCall("start", NoMsg)
    /\ UNCHANGED <<rows, airVars, loanVars>>

NextHealth ==
    \/ \E d \in DateInputs, w \in WeightInputs, h \in HeightInputs : AddEntry(d, w, h)
    \/ ShowSummary
    \/ ShowAllEntries
    \/ \E c \in PlotChoices : PlotTrends(c)
    \/ \E o \in BOOLEAN : ExportToExcel(o)
    \/ HealthExit
    \/ HealthInvalidChoice
    \/ HealthRunAgain

(***************************************************************************)
(* Initial state and specifications.  Each program starts at its menu with *)
(* nothing stored.                                                         *)
(***************************************************************************)
Init ==
    /\ flights = EmptyMap
    /\ bookings = EmptyMap
    /\ apc = "menu"
    /\ last = Call("start", "", 0, NoMsg)
    /\ roundtrip = Idle
    /\ customers = <<>>
    /\ loans = <<>>
    /\ lpc = "menu"
    /\ llast = LoanStarted
    /\ rows = <<>>
    /\ hpc = "menu"
    /\ hlast = HealthCall("start", NoMsg)

SpecAir == Init /\ [][NextAir]_vars

SpecLoan == Init /\ [][NextLoan]_vars

SpecHealth == Init /\ [][NextHealth]_vars

(***************************************************************************)
(* Claims about the airline system, checked under SpecAir.                 *)
(***************************************************************************)

\* C1: every stored flight satisfies 0 <= available_seats <= seats.
C1_SeatsWithinTotal ==
    \A f \in DOMAIN flights :
        /\ 0 <= flights[f].available_seats
        /\ flights[f].available_seats <= flights[f].seats

\* C2: book_ticket on a flight whose available_seats is 0 is rejected: no
\* booking is added, no seat count is decremented, and no other flight or
\* booking changes.
C2_FullFlightBookingRejected ==
    [][ (/\ last'.op = "book_ticket"
         /\ last'.flight_no \in DOMAIN flights
         /\ flights[last'.flight_no].available_seats = 0)
        => (/\ flights' = flights
            /\ bookings' = bookings
            /\ last'.msg = MsgNoSeats) ]_vars

C2_Witness ==
    /\ last.op = "book_ticket"
    /\ last.msg = MsgNoSeats
    /\ last.flight_no \in DOMAIN flights
    /\ flights[last.flight_no].available_seats = 0
    /\ flights[last.flight_no].seats > 0

\* C3: a successful book_ticket on a flight with a seat available, immediately
\* followed by cancel_booking of the ticket id that booking was assigned,
\* leaves the flight's available_seats at its value before the booking.
C3_BookThenCancelRestores ==
    roundtrip.phase = "cancelled" =>
        /\ roundtrip.before > 0
        /\ flights[roundtrip.flight_no].available_seats = roundtrip.before

C3_Witness ==
    /\ roundtrip.phase = "cancelled"
    /\ last.op = "cancel_booking"
    /\ last.msg = MsgCanceled
    /\ last.ticket_id = roundtrip.ticket_id

\* C4: add_flight with a flight number that already exists leaves the flights
\* mapping entirely unchanged.
C4_DuplicateAddLeavesFlights ==
    [][ (last'.op = "add_flight" /\ last'.flight_no \in DOMAIN flights)
        => flights' = flights ]_vars

C4_Witness ==
    /\ last.op = "add_flight"
    /\ last.msg = MsgFlightExists
    /\ last.flight_no \in DOMAIN flights

\* C5: a successful book_ticket stores the booking under the id
\* (number of stored bookings) + 1, whether or not that id is in use, and
\* leaves every other booking as it was.  The witness is the collision: the
\* assigned id was the id of a stored booking, which it replaced.
C5_TicketIdIsCountPlusOne ==
    [][ (last'.op = "book_ticket" /\ last'.msg = MsgBooked)
        => LET id == Cardinality(DOMAIN bookings) + 1 IN
           /\ last'.ticket_id = id
           /\ DOMAIN bookings' = DOMAIN bookings \cup {id}
           /\ bookings'[id].flight_no = last'.flight_no
           /\ \A t \in DOMAIN bookings \ {id} : bookings'[t] = bookings[t] ]_vars

C5_Witness ==
    /\ last.op = "book_ticket"
    /\ last.msg = MsgBooked
    /\ last.ticket_id \in DOMAIN bookings
    /\ last.ticket_id = Cardinality(DOMAIN bookings) + 1

(***************************************************************************)
(* Claims about the bank loan tracker, checked under SpecLoan.             *)
(***************************************************************************)

\* C6: in all three menu loops invalid input is reported and control returns
\* to the menu: no program is ever in an abnormally terminated state.
C6_NoAbnormalTermination ==
    /\ apc # "crashed"
    /\ lpc # "crashed"
    /\ hpc # "crashed"

\* C7: repay_loan on an existing loan stores max(0, old balance - payment),
\* so a payment above the balance stores exactly 0 and the stored balance is
\* never negative after a repayment; on an unknown loan id, or when it ends
\* before its UPDATE, no balance changes; no other loan's balance changes.
C7_RepayFloorsAtZero ==
    [][ llast'.op = "repay_loan"
        => IF llast'.msg = MsgPaymentOk
           THEN LET id == llast'.loan_id
                    d == loans[id].balance - llast'.payment.v
                IN  /\ id \in 1..Len(loans)
                    /\ loans'[id].balance = IF d > 0 THEN d ELSE 0
                    /\ loans'[id].balance >= 0
                    /\ (llast'.payment.v > loans[id].balance => loans'[id].balance = 0)
                    /\ Len(loans') = Len(loans)
                    /\ \A i \in 1..Len(loans) :
                         i # id => loans'[i].balance = loans[i].balance
           ELSE /\ llast'.loan_id \notin 1..Len(loans) \/ ~llast'.payment.ok
                /\ loans' = loans ]_vars

C7_Witness ==
    /\ llast.op = "repay_loan"
    /\ llast.msg = MsgPaymentOk
    /\ llast.payment.v = MaxBalance + 1
    /\ loans[llast.loan_id].amount > 0
    /\ loans[llast.loan_id].balance = 0

\* C8: a loan's status is changed only by approve_loan and reject_loan on that
\* loan, each of which sets it whatever it was; repay_loan never changes a
\* status; every status stored is Pending, Approved or Rejected.
C8_StatusOnlyByApproveReject ==
    [][ /\ \A i \in 1..Len(loans') : loans'[i].status \in Statuses
        /\ \A i \in 1..Len(loans) :
             loans'[i].status # loans[i].status
                => llast'.op \in {"approve_loan", "reject_loan"} /\ llast'.loan_id = i
        /\ (llast'.op = "approve_loan" /\ llast'.loan_id \in 1..Len(loans))
             => loans'[llast'.loan_id].status = "Approved"
        /\ (llast'.op = "reject_loan" /\ llast'.loan_id \in 1..Len(loans))
             => loans'[llast'.loan_id].status = "Rejected"
        /\ llast'.op = "repay_loan"
             => \A i \in 1..Len(loans) : loans'[i].status = loans[i].status ]_vars

C8_Witness ==
    /\ llast.op = "approve_loan"
    /\ llast.was = "Rejected"
    /\ llast.loan_id \in 1..Len(loans)
    /\ loans[llast.loan_id].status = "Approved"
    /\ loans[llast.loan_id].balance = 0

\* C9: apply_loan inserts a loan only when a customer has the email typed;
\* for an unknown email table loans is unchanged.  A created loan has status
\* Pending, balance equal to amount and that customer's id; every stored loan
\* refers to a stored customer.
C9_LoanOnlyForKnownCustomer ==
    [][ /\ \A i \in 1..Len(loans') : loans'[i].customer_id \in 1..Len(customers')
        /\ llast'.op = "apply_loan"
             => IF \A c \in 1..Len(customers) : customers[c].email # llast'.email
                THEN loans' = loans /\ llast'.msg = MsgCustomerNotFound
                ELSE \/ loans' = loans /\ llast'.msg = MsgValueError
                     \/ /\ llast'.msg = MsgLoanSubmitted
                        /\ Len(loans') = Len(loans) + 1
                        /\ SubSeq(loans', 1, Len(loans)) = loans
                        /\ LET new == loans'[Len(loans')] IN
                           /\ new.status = "Pending"
                           /\ new.balance = new.amount
                           /\ customers[new.customer_id].email = llast'.email ]_vars

C9_Witness ==
    /\ llast.op = "apply_loan"
    /\ llast.msg = MsgLoanSubmitted
    /\ Len(customers) = 2
    /\ loans[llast.loan_id].customer_id = 2
    /\ customers[2].email = llast.email

(***************************************************************************)
(* Claims about the health log, checked under SpecHealth.                  *)
(***************************************************************************)

\* C10: the stored rows of one state are a prefix of those of every later
\* state; add_entry_interactive appends exactly one row; show_summary,
\* show_all_entries, plot_trends and export_to_excel leave the rows unchanged.
C10_LogIsAppendOnly ==
    [][ /\ Len(rows) <= Len(rows')
        /\ SubSeq(rows', 1, Len(rows)) = rows
        /\ hlast'.op = "add_entry" => Len(rows') = Len(rows) + 1
        /\ hlast'.op \in {"show_summary", "show_all_entries", "plot_trends",
                          "export_to_excel"} => rows' = rows ]_vars

C10_Witness ==
    /\ hlast.op = "add_entry"
    /\ Len(rows) = MaxRows
    /\ rows[1].date # rows[Len(rows)].date

(***************************************************************************)
(* Seat conservation in the airline system, checked under SpecAir.         *)
(***************************************************************************)

\* C11: for every stored flight, available_seats plus the number of stored
\* bookings whose flight_no is that flight equals the flight's total seats.
C11_SeatConservation ==
    \A f \in DOMAIN flights :
        LET booked == {t \in DOMAIN bookings : bookings[t].flight_no = f} IN
        flights[f].available_seats + Cardinality(booked) = flights[f].seats

====
